---- MODULE Spec2Model ----
(***************************************************************************)
(* Model of the asynchronous drink-analysis pipeline of coffee-clock:      *)
(*   - the ScanDrinkCard component (app/components/ScanDrinkCard.tsx):     *)
(*     handleImageUpload, startPolling, stopPolling, the unmount cleanup;  *)
(*   - the analysis_jobs table (db/2-analysis_jobs.sql);                   *)
(*   - the worker (netlify/functions/analyze-drink-background.ts).         *)
(* Every await of the code is a point where other callbacks may run, so    *)
(* each handler is cut into one action per segment between two awaits.     *)
(***************************************************************************)
EXTENDS Integers, Sequences, FiniteSets, Bags, TLC

(* ---------------------------- bounds ---------------------------------- *)
\* job identifiers (one per file-selection event) the model provides
MaxJobs == 3
\* file-selection events offered to handleImageUpload under Spec
SpecUploads == 1
\* repeated deliveries of a trigger request to the worker
MaxRedeliveries == 1
\* poll reads that may be awaiting their answer at the same time
MaxInFlight == 2
\* ticks of one interval timer under SpecOverlap
OverlapTicks == 2
\* rows of analysis_jobs under SpecRls
RlsRows == 2
\* keys of the temporary blob store
MaxBlobs == 2
\* requests carrying a blobKey under SpecBlob
MaxBlobRequests == 2
\* whitespace characters at each place around a code fence
MaxWs == 1

\* half-lives of elapsed time the chart model represents
MaxHalfLives == 6
\* logs handed to the chart
MaxLogs == 2

(* ------------------------ program constants --------------------------- *)
HALF_LIFE == 5
StepMinutes == 30
maxAttempts == 60
intervalMs == 2000
MaxBytes == 5 * 1024 * 1024
MAX_ERROR_TEXT_LEN == 500

(* ----------------------------- values --------------------------------- *)
\* an optional value: <<>> is null/undefined, <<v>> is a present value
None == << >>
Some(v) == << v >>

\* a text, kept as its wording and its length in characters
Msg(t, n) == [text |-> t, len |-> n]

Jobs == 1 .. MaxJobs
NoTimer == 0
\* an absent jobId, an absent blobKey
NoJob == 0
NoBlob == 0
BlobKeys == 1 .. MaxBlobs

\* the files a user may pick: size in bytes and MIME type
FileSizes == {0, 1024, MaxBytes, MaxBytes + 1}
FileTypes == {"image/jpeg", "text/plain"}
Files == [size : FileSizes, type : FileTypes]

\* result payloads the model may return (AnalysisResult objects)
Latte == [product_name |-> "Latte", caffeine_mg |-> 120, sugar_g |-> 10,
          volume_ml |-> 350]
Unnamed == [product_name |-> "", caffeine_mg |-> 0, sugar_g |-> 0, volume_ml |-> 0]
\* a JSON object without the numeric keys
Tea == [product_name |-> "Tea"]

(* ------------------------------ state --------------------------------- *)
VARIABLES
  supabase,          \* client: the module-level supabase client exists
  envOk,             \* worker: the three environment variables are set
  call,              \* the arguments of the pure function under study
  ret,               \* its result: None before the call, then Some(value)
  blobs,             \* the "temp-images" blob store: per key None or Some(payload)
  mounted,           \* the ScanDrinkCard component is mounted
  isAnalyzing,       \* React state
  analysisResult,    \* React state: None or Some(payload)
  selectedCategory,  \* React state
  pollStatus,        \* React state
  pollTimerRef,      \* pollTimerRef.current: NoTimer or the timer's id
  timers,            \* per job: the interval created by startPolling(job)
  hu,                \* per file-selection event: position in handleImageUpload
  nUploads,          \* file-selection events so far
  db,                \* analysis_jobs: per job None or Some(row)
  invs,              \* worker invocations (requests to the function)
  reads,             \* poll reads awaiting their answer (a bag)
  lastError,         \* argument of the latest onError call
  onErrorSeq         \* flips at every onError call

vars == << supabase, envOk, call, ret, blobs, mounted, isAnalyzing, analysisResult,
           selectedCategory, pollStatus, pollTimerRef, timers, hu, nUploads,
           db, invs, reads, lastError, onErrorSeq >>

clientState == << isAnalyzing, analysisResult, selectedCategory, pollStatus >>

\* the message of the error thrown for a trigger response other than 200/202
StartFailed(status) ==
  [text |-> "Failed to start analysis (Server returned ${response.status})",
   len |-> 46, status |-> status]

\* a poll read: sent, then answered with a snapshot of the row or an error
SentRead(j) ==
  [job |-> j, phase |-> "sent", error |-> FALSE, status |-> "",
   result |-> None, error_message |-> None]
AnsweredRead(j, row) ==
  [job |-> j, phase |-> "answered", error |-> FALSE, status |-> row.status,
   result |-> row.result, error_message |-> row.error_message]
FailedRead(j) ==
  [job |-> j, phase |-> "answered", error |-> TRUE, status |-> "",
   result |-> None, error_message |-> None]

(* --------------------------- ScanDrinkCard ---------------------------- *)

\* the upload input is rendered only in this case
InputVisible == mounted /\ analysisResult = None /\ ~isAnalyzing

\* clearInterval(id)
clearInterval(t, id) ==
  IF id \in DOMAIN t THEN [t EXCEPT ![id].live = FALSE] ELSE t

\* stopPolling(): the timers after it (the ref becomes null)
stopPolling(t, ref) == IF ref # NoTimer THEN clearInterval(t, ref) ELSE t

\* onError(msg)
onError(msg) ==
  /\ lastError' = Some(msg)
  /\ onErrorSeq' = 1 - onErrorSeq

NoOnError == UNCHANGED << lastError, onErrorSeq >>

\* startPolling(jobId): up to the setInterval call
startPolling(j) ==
  /\ pollStatus' = "Initializing analysis..."
  /\ pollTimerRef' = j
  /\ timers' = [timers EXCEPT ![j] = [live |-> TRUE, attempts |-> 0]]

\* the catch block without its setIsAnalyzing(false)
SubmitCatchKeepsAnalyzing(msg) ==
  /\ onError(msg)
  /\ timers' = stopPolling(timers, pollTimerRef)
  /\ pollTimerRef' = NoTimer
  /\ UNCHANGED << isAnalyzing, analysisResult, selectedCategory, pollStatus >>

\* the catch block of handleImageUpload
SubmitCatch(msg) ==
  /\ isAnalyzing' = FALSE
  /\ onError(msg)
  /\ timers' = stopPolling(timers, pollTimerRef)
  /\ pollTimerRef' = NoTimer
  /\ UNCHANGED << analysisResult, selectedCategory, pollStatus >>

\* a size check that also rejects a file of exactly the ceiling
TooLargeInclusive(file) == file.size >= MaxBytes

\* the basic validation of handleImageUpload: file.size > 5 * 1024 * 1024
TooLarge(file) == file.size > MaxBytes

\* handleImageUpload, from the change event to the first await (the insert)
HandleImageUpload(f) ==
  /\ InputVisible
  /\ nUploads < MaxJobs
  /\ nUploads' = nUploads + 1
  /\ LET j == nUploads + 1 IN
     IF f = None
     THEN /\ hu' = [hu EXCEPT ![j] = [pc |-> "nofile"]]
          /\ NoOnError
          /\ UNCHANGED clientState
     ELSE IF ~supabase
     THEN /\ hu' = [hu EXCEPT ![j] = [pc |-> "rejected", file |-> f[1]]]
          /\ onError(Msg("System configuration error: Supabase client missing", 51))
          /\ UNCHANGED clientState
     ELSE IF TooLarge(f[1])
     THEN /\ hu' = [hu EXCEPT ![j] = [pc |-> "rejected", file |-> f[1]]]
          /\ onError(Msg("Image is too large (max 5MB)", 28))
          /\ UNCHANGED clientState
     ELSE /\ hu' = [hu EXCEPT ![j] = [pc |-> "insert", file |-> f[1]]]
          /\ isAnalyzing' = TRUE
          /\ analysisResult' = None
          /\ pollStatus' = "Uploading image..."
          /\ NoOnError
          /\ UNCHANGED selectedCategory
  /\ UNCHANGED << supabase, envOk, call, ret, blobs, mounted, pollTimerRef, timers, db, invs, reads >>

\* the insert answers and its insertError is not looked at
InsertReturnUnchecked(j, ok) ==
  /\ hu[j].pc = "insert"
  /\ db' = IF ok
           THEN [db EXCEPT ![j] =
                   Some([status |-> "pending", result |-> None, error_message |-> None])]
           ELSE db
  /\ hu' = [hu EXCEPT ![j].pc = "read"]
  /\ NoOnError
  /\ UNCHANGED << clientState, pollTimerRef, timers >>
  /\ UNCHANGED << supabase, envOk, call, ret, blobs, mounted, nUploads, invs, reads >>

\* the insert of { id: jobId, status: 'pending' } answers
InsertReturn(j, ok) ==
  /\ hu[j].pc = "insert"
  /\ IF ok
     THEN /\ db' = [db EXCEPT ![j] =
                 Some([status |-> "pending", result |-> None, error_message |-> None])]
          /\ hu' = [hu EXCEPT ![j].pc = "read"]
          /\ NoOnError
          /\ UNCHANGED << clientState, pollTimerRef, timers >>
     ELSE /\ db' = db
          /\ hu' = [hu EXCEPT ![j] = [pc |-> "error"]]
          /\ SubmitCatch(Msg("Failed to initialize analysis task. Please ensure you are logged in.", 68))
  /\ UNCHANGED << supabase, envOk, call, ret, blobs, mounted, nUploads, invs, reads >>

\* the FileReader ends; on a read error reader.result is null, the split
\* throws inside onloadend and the promise never resolves
FileReaderEnd(j, ok) ==
  /\ hu[j].pc = "read"
  /\ IF ok
     THEN /\ hu' = [hu EXCEPT ![j] = [pc |-> "trigger"]]
          /\ invs' = Append(invs, [job |-> j, pc |-> "queued", code |-> 0,
                                   client |-> TRUE, httpMethod |-> "POST",
                                   imageBase64 |-> hu[j].file.size > 0,
                                   blobKey |-> NoBlob, blobRead |-> FALSE])
     ELSE /\ hu' = [hu EXCEPT ![j] = [pc |-> "hung"]]
          /\ invs' = invs
  /\ NoOnError
  /\ UNCHANGED << supabase, envOk, call, ret, blobs, mounted, clientState, pollTimerRef, timers,
                  nUploads, db, reads >>

\* a continuation that sends the trigger request again when it failed
AfterFetchRetries(j, status) ==
  /\ IF status = 202 \/ status = 200
     THEN /\ hu' = [hu EXCEPT ![j] = [pc |-> "polling"]]
          /\ startPolling(j)
          /\ invs' = invs
     ELSE /\ hu' = [hu EXCEPT ![j] = [pc |-> "trigger"]]
          /\ invs' = Append(invs,
                       [invs[CHOOSE i \in DOMAIN invs : invs[i].job = j]
                          EXCEPT !.pc = "queued", !.code = 0])
          /\ UNCHANGED << pollStatus, pollTimerRef, timers >>
  /\ NoOnError
  /\ UNCHANGED << isAnalyzing, analysisResult, selectedCategory >>
  /\ UNCHANGED << supabase, envOk, call, ret, blobs, mounted, nUploads, db, reads >>

\* the continuation of handleImageUpload after the fetch: status is the
\* response status, or 0 when the fetch threw
AfterFetch(j, status) ==
  /\ IF status = 202 \/ status = 200
     THEN /\ hu' = [hu EXCEPT ![j] = [pc |-> "polling"]]
          /\ startPolling(j)
          /\ NoOnError
          /\ UNCHANGED << isAnalyzing, analysisResult, selectedCategory >>
     ELSE /\ hu' = [hu EXCEPT ![j] = [pc |-> "error"]]
          /\ SubmitCatch(IF status = 0
                         THEN Msg("Failed to fetch", 15)
                         ELSE StartFailed(status))
  /\ UNCHANGED << supabase, envOk, call, ret, blobs, mounted, nUploads, db, invs, reads >>

\* the platform accepts the request for background execution and answers
\* 202 at once; the handler runs on its own
TriggerAccepted(j) ==
  /\ hu[j].pc = "trigger"
  /\ AfterFetch(j, 202)

\* the fetch resolves with the response the handler returned
TriggerResponse(j) ==
  /\ hu[j].pc = "trigger"
  /\ \E i \in DOMAIN invs :
       /\ invs[i].client /\ invs[i].job = j /\ invs[i].pc = "done"
       /\ AfterFetch(j, invs[i].code)

\* the fetch rejects (network failure, at any point of the exchange)
TriggerThrow(j) ==
  /\ hu[j].pc = "trigger"
  /\ AfterFetch(j, 0)

\* the interval callback of startPolling, up to its await (or its return)
Tick(j) ==
  /\ timers[j].live
  /\ LET a == IF timers[j].attempts < maxAttempts + 1
              THEN timers[j].attempts + 1 ELSE maxAttempts + 1
         t == [timers EXCEPT ![j].attempts = a]
     IN
     IF a > maxAttempts
     THEN /\ timers' = stopPolling(t, pollTimerRef)
          /\ pollTimerRef' = NoTimer
          /\ onError(Msg("Analysis timed out. Please try again.", 37))
          /\ isAnalyzing' = FALSE
          /\ UNCHANGED << analysisResult, selectedCategory, pollStatus, reads >>
     ELSE /\ timers' = t
          /\ IF ~supabase
             THEN reads' = reads
             ELSE /\ BagCardinality(reads) < MaxInFlight
                  /\ reads' = reads (+) SetToBag({SentRead(j)})
          /\ NoOnError
          /\ UNCHANGED << clientState, pollTimerRef >>
  /\ UNCHANGED << supabase, envOk, call, ret, blobs, mounted, hu, nUploads, db, invs >>

\* the database executes the select ... eq("id", jobId).single() of a read
SelectExec(r, ok) ==
  /\ BagIn(r, reads)
  /\ r.phase = "sent"
  /\ reads' = (reads (-) SetToBag({r})) (+)
              SetToBag({IF ok /\ db[r.job] # None
                        THEN AnsweredRead(r.job, db[r.job][1])
                        ELSE FailedRead(r.job)})
  /\ UNCHANGED << supabase, envOk, call, ret, blobs, mounted, clientState, pollTimerRef, timers,
                  hu, nUploads, db, invs, lastError, onErrorSeq >>

\* the interval callback on the row a read returned (data.status)
HandleRow(r) ==
  IF r.status = "completed"
  THEN /\ timers' = stopPolling(timers, pollTimerRef)
       /\ pollTimerRef' = NoTimer
       /\ isAnalyzing' = FALSE
       /\ IF r.result # None
          THEN /\ analysisResult' = r.result
               /\ selectedCategory' = r.result[1].product_name
               /\ NoOnError
          ELSE /\ onError(Msg("Analysis completed but returned no data.", 40))
               /\ UNCHANGED << analysisResult, selectedCategory >>
       /\ UNCHANGED pollStatus
  ELSE IF r.status = "failed"
  THEN /\ timers' = stopPolling(timers, pollTimerRef)
       /\ pollTimerRef' = NoTimer
       /\ isAnalyzing' = FALSE
       /\ onError(IF r.error_message # None /\ r.error_message[1].len > 0
                  THEN r.error_message[1]
                  ELSE Msg("Analysis failed.", 16))
       /\ UNCHANGED << analysisResult, selectedCategory, pollStatus >>
  ELSE /\ pollStatus' = IF r.status = "processing"
                        THEN "AI is analyzing image..."
                        ELSE "Waiting for queue..."
       /\ NoOnError
       /\ UNCHANGED << isAnalyzing, analysisResult, selectedCategory,
                       pollTimerRef, timers >>

\* the rest of the callback when a read error ends the polling like a
\* failed job
PollAnswerStopsOnError(r) ==
  /\ BagIn(r, reads)
  /\ r.phase = "answered"
  /\ reads' = reads (-) SetToBag({r})
  /\ IF r.error
     THEN /\ timers' = stopPolling(timers, pollTimerRef)
          /\ pollTimerRef' = NoTimer
          /\ isAnalyzing' = FALSE
          /\ onError(Msg("Analysis failed.", 16))
          /\ UNCHANGED << analysisResult, selectedCategory, pollStatus >>
     ELSE HandleRow(r)
  /\ UNCHANGED << supabase, envOk, call, ret, blobs, mounted, hu, nUploads, db, invs >>

\* the rest of the interval callback, after the await of the read
PollAnswer(r) ==
  /\ BagIn(r, reads)
  /\ r.phase = "answered"
  /\ reads' = reads (-) SetToBag({r})
  /\ IF r.error
     THEN /\ NoOnError
          /\ UNCHANGED << clientState, pollTimerRef, timers >>
     ELSE HandleRow(r)
  /\ UNCHANGED << supabase, envOk, call, ret, blobs, mounted, hu, nUploads, db, invs >>

\* a cleanup that also marks the job being polled as failed in the table
UnmountMarksJobFailed ==
  /\ mounted
  /\ mounted' = FALSE
  /\ timers' = IF pollTimerRef # NoTimer
               THEN clearInterval(timers, pollTimerRef) ELSE timers
  /\ db' = IF pollTimerRef # NoTimer /\ db[pollTimerRef] # None
           THEN [db EXCEPT ![pollTimerRef] =
                   Some([db[pollTimerRef][1] EXCEPT !.status = "failed"])]
           ELSE db
  /\ UNCHANGED << supabase, envOk, call, ret, blobs, clientState, pollTimerRef, hu, nUploads,
                  invs, reads, lastError, onErrorSeq >>

\* the cleanup of the effect, run when the component unmounts
Unmount ==
  /\ mounted
  /\ mounted' = FALSE
  /\ timers' = IF pollTimerRef # NoTimer
               THEN clearInterval(timers, pollTimerRef) ELSE timers
  /\ UNCHANGED << supabase, envOk, call, ret, blobs, clientState, pollTimerRef, hu, nUploads,
                  db, invs, reads, lastError, onErrorSeq >>

\* the close button of the result card
CloseResult ==
  /\ mounted
  /\ analysisResult # None
  /\ analysisResult' = None
  /\ UNCHANGED << supabase, envOk, call, ret, blobs, mounted, isAnalyzing, selectedCategory,
                  pollStatus, pollTimerRef, timers, hu, nUploads, db, invs,
                  reads, lastError, onErrorSeq >>

(* ------------------- analyze-drink-background worker ------------------ *)

\* trimErrorText(text): slice(0, maxLen) followed by "..." when too long
trimErrorText(m) ==
  IF m.len > MAX_ERROR_TEXT_LEN
  THEN [m EXCEPT !.len = MAX_ERROR_TEXT_LEN + 3]
  ELSE m

\* the model output as a sequence of lexical pieces; "<fence>" stands for
\* the three-backquote code fence marker
BoxTokens == {"<|begin_of_box|>", "<|end_of_box|>"}
JsonValue ==
  [t \in {"{latte}", "{unnamed}", "{tea}", "null"} |->
     CASE t = "{latte}" -> Some(Latte)
       [] t = "{unnamed}" -> Some(Unnamed)
       [] t = "{tea}" -> Some(Tea)
       [] OTHER -> None]
JsonTexts == DOMAIN JsonValue

RECURSIVE DropLeadingWs(_)
DropLeadingWs(s) ==
  IF s # << >> /\ Head(s) = " " THEN DropLeadingWs(Tail(s)) ELSE s

RECURSIVE DropTrailingWs(_)
DropTrailingWs(s) ==
  IF s # << >> /\ s[Len(s)] = " "
  THEN DropTrailingWs(SubSeq(s, 1, Len(s) - 1)) ELSE s

\* String.prototype.trim
Trim(s) == DropTrailingWs(DropLeadingWs(s))

\* the two global replaces of the box tokens by ""
StripBox(s) == SelectSeq(s, LAMBDA t : t \notin BoxTokens)

\* the replace of a leading <fence>json and the whitespace after it by ""
StripLeadingFence(s) ==
  IF s # << >> /\ Head(s) = "<fence>json" THEN DropLeadingWs(Tail(s)) ELSE s

\* the replace of a trailing <fence> and the whitespace before it by ""
StripTrailingFence(s) ==
  IF s # << >> /\ s[Len(s)] = "<fence>"
  THEN DropTrailingWs(SubSeq(s, 1, Len(s) - 1)) ELSE s

cleanContent(content) ==
  Trim(StripTrailingFence(StripLeadingFence(StripBox(content))))

\* a JSON text whose product_name string holds a code fence marker
FencedNameText == << "{product_name:", "<fence>", "}" >>
FencedName == [product_name |-> "<fence>", caffeine_mg |-> 0, sugar_g |-> 0,
               volume_ml |-> 0]

\* the valid JSON texts of the model, as sequences of pieces
JsonDocs == {<< t >> : t \in JsonTexts} \cup {FencedNameText}

\* JSON.parse(text): ok with the value, or a SyntaxError
JsonParse(s) ==
  LET core == Trim(s) IN
  IF Len(core) = 1 /\ core[1] \in JsonTexts
  THEN [ok |-> TRUE, value |-> JsonValue[core[1]]]
  ELSE IF core = FencedNameText
  THEN [ok |-> TRUE, value |-> Some(FencedName)]
  ELSE [ok |-> FALSE, value |-> None]

\* content.match of a <fence>json fence, lazily up to the next <fence>: None, or
\* Some(match[1])
FencedBlock(content) ==
  LET opens == {i \in 1 .. Len(content) : content[i] = "<fence>json"} IN
  IF opens = {} THEN None
  ELSE LET i == CHOOSE x \in opens : \A y \in opens : x <= y
           closes == {k \in (i + 1) .. Len(content) :
                        content[k] \in {"<fence>", "<fence>json"}}
       IN IF closes = {} THEN None
          ELSE LET k == CHOOSE x \in closes : \A y \in closes : x <= y
               IN Some(SubSeq(content, i + 1, k - 1))

\* the parse logic of the handler: ok with parsedData, or the thrown message
ParseContent(content) ==
  LET first == JsonParse(cleanContent(content)) IN
  IF first.ok THEN [ok |-> TRUE, value |-> first.value, msg |-> None]
  ELSE LET match == FencedBlock(content) IN
       IF match # None /\ match[1] # << >>
       THEN LET second == JsonParse(match[1]) IN
            IF second.ok
            THEN [ok |-> TRUE, value |-> second.value, msg |-> None]
            ELSE [ok |-> FALSE, value |-> None,
                  msg |-> Some(Msg("SyntaxError: JSON.parse", 23))]
       ELSE [ok |-> FALSE, value |-> None,
             msg |-> Some(Msg("Failed to parse JSON from AI response", 37))]

\* model outputs offered to the handler
Contents ==
  { << "{latte}" >>,
    << "null" >>,
    << "{tea}" >>,
    << "<fence>json", " ", "{latte}", " ", "<fence>" >>,
    << "<|begin_of_box|>", "{unnamed}", "<|end_of_box|>" >>,
    << "text", "<fence>json", "{latte}", "<fence>", "text" >>,
    << "text" >>,
    << "text", "<fence>json", "text", "<fence>" >>,
    << "text", "<fence>json", "<fence>" >> }

\* lengths of the error body of a non-ok response of the analysis API
ErrTextLens == {20, 485, 486}

\* what the call of the analysis API may produce
ApiOutcomes ==
  {[kind |-> "throw"], [kind |-> "bad_body"], [kind |-> "empty"]}
  \cup {[kind |-> "http_error", errLen |-> n] : n \in ErrTextLens}
  \cup {[kind |-> "content", content |-> c] : c \in Contents}

\* steps 2 and the parse logic: ok with parsedData, or the thrown message
Analyse(api) ==
  CASE api.kind = "throw" ->
         [ok |-> FALSE, value |-> None, msg |-> Some(Msg("fetch failed", 12))]
    [] api.kind = "http_error" ->
         [ok |-> FALSE, value |-> None,
          msg |-> Some(Msg("GLM API Error: ${errText}", 15 + api.errLen))]
    [] api.kind = "bad_body" ->
         [ok |-> FALSE, value |-> None,
          msg |-> Some(Msg("SyntaxError: JSON.parse", 23))]
    [] api.kind = "empty" ->
         [ok |-> FALSE, value |-> None,
          msg |-> Some(Msg("AI response was empty", 21))]
    [] OTHER -> ParseContent(api.content)

\* safeUpdateJob(data): update(data).eq("id", jobId); a failed update is
\* logged and swallowed
safeUpdateJob(j, data, dbOk) ==
  IF dbOk /\ db[j] # None
  THEN [db EXCEPT ![j] =
          Some([f \in DOMAIN db[j][1] |->
                  IF f \in DOMAIN data THEN data[f] ELSE db[j][1][f]])]
  ELSE db

\* the handler from its start to the call of the analysis API; with a
\* blobKey the stored payload is read and merged over the request body
WorkerStart(i, dbOk) ==
  /\ i \in DOMAIN invs
  /\ invs[i].pc = "queued"
  /\ blobs' = blobs
  /\ IF invs[i].httpMethod # "POST"
     THEN /\ invs' = [invs EXCEPT ![i].pc = "done", ![i].code = 405]
          /\ db' = db
     ELSE IF ~envOk
     THEN /\ invs' = [invs EXCEPT ![i].pc = "done", ![i].code = 500]
          /\ db' = db
     ELSE \E getOk \in BOOLEAN :
       LET k == invs[i].blobKey
           blobData == IF k # NoBlob /\ getOk THEN blobs[k] ELSE None
           blobJson == IF blobData # None /\ blobData[1].valid
                       THEN blobData ELSE None
           jobId == IF blobJson # None /\ blobJson[1].jobId # NoJob
                    THEN blobJson[1].jobId ELSE invs[i].job
           imageBase64 == IF blobJson # None /\ blobJson[1].imageBase64
                          THEN TRUE ELSE invs[i].imageBase64
           seen == [invs[i] EXCEPT !.job = jobId, !.imageBase64 = imageBase64,
                                   !.blobRead = (blobData # None)]
       IN
       /\ (k = NoBlob => getOk)
       /\ IF jobId = NoJob \/ ~imageBase64
          THEN /\ invs' = [invs EXCEPT ![i] = [seen EXCEPT !.pc = "done", !.code = 400]]
               /\ db' = db
          ELSE /\ invs' = [invs EXCEPT ![i] = [seen EXCEPT !.pc = "calling"]]
               /\ db' = safeUpdateJob(jobId, [status |-> "processing"], dbOk)
  /\ UNCHANGED << supabase, envOk, call, ret, mounted, clientState, pollTimerRef, timers,
                  hu, nUploads, reads, lastError, onErrorSeq >>

\* the handler from the answer of the analysis API to its return; the
\* finally block deletes the blob key (a failed delete is logged only)
WorkerFinish(i, api, dbOk) ==
  /\ i \in DOMAIN invs
  /\ invs[i].pc = "calling"
  /\ LET a == Analyse(api) IN
     IF a.ok
     THEN /\ db' = safeUpdateJob(invs[i].job,
                     [status |-> "completed", result |-> a.value], dbOk)
          /\ invs' = [invs EXCEPT ![i].pc = "done", ![i].code = 202]
     ELSE /\ db' = safeUpdateJob(invs[i].job,
                     [status |-> "failed",
                      error_message |-> Some(trimErrorText(a.msg[1]))], dbOk)
          /\ invs' = [invs EXCEPT ![i].pc = "done", ![i].code = 500]
  /\ \E delOk \in BOOLEAN :
       LET k == invs[i].blobKey IN
       /\ (k = NoBlob => delOk)
       /\ blobs' = IF k # NoBlob /\ delOk THEN [blobs EXCEPT ![k] = None] ELSE blobs
  /\ UNCHANGED << supabase, envOk, call, ret, mounted, clientState, pollTimerRef, timers,
                  hu, nUploads, reads, lastError, onErrorSeq >>

\* the platform delivers the trigger request to the handler once more after
\* the handler answered it with an error status
Redeliver(i) ==
  /\ i \in DOMAIN invs
  /\ invs[i].client
  /\ invs[i].pc = "done"
  /\ invs[i].code >= 400
  /\ Cardinality({k \in DOMAIN invs : ~invs[k].client}) < MaxRedeliveries
  /\ invs' = Append(invs, [invs[i] EXCEPT !.pc = "queued", !.code = 0,
                                          !.client = FALSE])
  /\ UNCHANGED << supabase, envOk, call, ret, blobs, mounted, clientState, pollTimerRef, timers,
                  hu, nUploads, db, reads, lastError, onErrorSeq >>

\* nothing has happened yet: the component is mounted and idle, the table
\* and the blob store are empty
Idle ==
  /\ supabase \in BOOLEAN
  /\ envOk \in BOOLEAN
  /\ ret = None
  /\ blobs = [k \in BlobKeys |-> None]
  /\ mounted = TRUE
  /\ isAnalyzing = FALSE
  /\ analysisResult = None
  /\ selectedCategory = ""
  /\ pollStatus = ""
  /\ pollTimerRef = NoTimer
  /\ timers = [j \in Jobs |-> [live |-> FALSE, attempts |-> 0]]
  /\ hu = [j \in Jobs |-> [pc |-> "none"]]
  /\ nUploads = 0
  /\ db = [j \in Jobs |-> None]
  /\ invs = << >>
  /\ reads = EmptyBag
  /\ lastError = None
  /\ onErrorSeq = 0

Init == Idle /\ call = None

\* the pipeline as the client drives it: one file selection, every trigger
\* request handled once
Next ==
  \/ \E f \in {None} \cup {Some(x) : x \in Files} :
       nUploads < SpecUploads /\ HandleImageUpload(f)
  \/ \E j \in Jobs, ok \in BOOLEAN : InsertReturn(j, ok)
  \/ \E j \in Jobs, ok \in BOOLEAN : FileReaderEnd(j, ok)
  \/ \E j \in Jobs : TriggerAccepted(j)
  \/ \E j \in Jobs : TriggerResponse(j)
  \/ \E j \in Jobs : TriggerThrow(j)
  \/ \E j \in Jobs : Tick(j)
  \/ \E r \in BagToSet(reads), ok \in BOOLEAN : SelectExec(r, ok)
  \/ \E r \in BagToSet(reads) : PollAnswer(r)
  \/ Unmount
  \/ CloseResult
  \/ \E i \in DOMAIN invs, dbOk \in BOOLEAN : WorkerStart(i, dbOk)
  \/ \E i \in DOMAIN invs, api \in ApiOutcomes, dbOk \in BOOLEAN :
       WorkerFinish(i, api, dbOk)

Spec == Init /\ [][Next]_vars

\* the same pipeline when every pending step is eventually taken: the
\* awaited calls return or fail, the FileReader ends, the worker runs and the
\* interval timers keep firing; the user's steps are under no obligation
Fairness ==
  /\ WF_vars(\E j \in Jobs, ok \in BOOLEAN : InsertReturn(j, ok))
  /\ WF_vars(\E j \in Jobs, ok \in BOOLEAN : FileReaderEnd(j, ok))
  /\ WF_vars(\E j \in Jobs : TriggerAccepted(j) \/ TriggerResponse(j) \/ TriggerThrow(j))
  /\ WF_vars(\E j \in Jobs : Tick(j))
  /\ WF_vars(\E r \in BagToSet(reads), ok \in BOOLEAN : SelectExec(r, ok))
  /\ WF_vars(\E r \in BagToSet(reads) : PollAnswer(r))
  /\ WF_vars(\E i \in DOMAIN invs, dbOk \in BOOLEAN : WorkerStart(i, dbOk))
  /\ WF_vars(\E i \in DOMAIN invs, api \in ApiOutcomes, dbOk \in BOOLEAN :
               WorkerFinish(i, api, dbOk))

SpecLive == Init /\ [][Next]_vars /\ Fairness

\* the same pipeline when the platform delivers a trigger request again
\* after the handler answered it with an error; the timers do not tick
NextRetry ==
  \/ \E f \in {Some(x) : x \in Files} :
       nUploads < SpecUploads /\ HandleImageUpload(f)
  \/ \E j \in Jobs, ok \in BOOLEAN : InsertReturn(j, ok)
  \/ \E j \in Jobs : FileReaderEnd(j, TRUE)
  \/ \E j \in Jobs : TriggerAccepted(j)
  \/ \E i \in DOMAIN invs, dbOk \in BOOLEAN : WorkerStart(i, dbOk)
  \/ \E i \in DOMAIN invs, api \in ApiOutcomes, dbOk \in BOOLEAN :
       WorkerFinish(i, api, dbOk)
  \/ \E i \in DOMAIN invs : Redeliver(i)

SpecRetry == Init /\ [][NextRetry]_vars

\* several uploads one after the other with slow poll reads: the client and
\* the worker are configured, the database and the network answer, and each
\* timer is followed for its first OverlapTicks ticks
InitOverlap == Init /\ supabase /\ envOk

OverlapFile == [size |-> 1024, type |-> "image/jpeg"]
OverlapOutcomes ==
  {[kind |-> "empty"],
   [kind |-> "content", content |-> << "{latte}" >>],
   [kind |-> "content", content |-> << "null" >>]}

NextOverlap ==
  \/ HandleImageUpload(Some(OverlapFile))
  \/ \E j \in Jobs : InsertReturn(j, TRUE)
  \/ \E j \in Jobs : FileReaderEnd(j, TRUE)
  \/ \E j \in Jobs : TriggerAccepted(j)
  \/ \E j \in Jobs : timers[j].attempts < OverlapTicks /\ Tick(j)
  \/ \E r \in BagToSet(reads) : SelectExec(r, TRUE)
  \/ \E r \in BagToSet(reads) : PollAnswer(r)
  \/ CloseResult
  \/ \E i \in DOMAIN invs : WorkerStart(i, TRUE)
  \/ \E i \in DOMAIN invs, api \in OverlapOutcomes : WorkerFinish(i, api, TRUE)

SpecOverlap == InitOverlap /\ [][NextOverlap]_vars

(* ------------------- the parse logic on wrapped JSON ------------------- *)

\* n whitespace characters
Ws(n) == [i \in 1 .. n |-> " "]

\* the JSON text J inside a json code fence, with whitespace before the
\* fence (l), after its opening marker (a), before its closing marker (b) and
\* after the fence (t), the whole between the box tokens when box is set
Wrap(J, box, l, a, b, t) ==
  (IF box THEN << "<|begin_of_box|>" >> ELSE << >>)
  \o Ws(l) \o << "<fence>json" >> \o Ws(a) \o J \o Ws(b) \o << "<fence>" >> \o Ws(t)
  \o (IF box THEN << "<|end_of_box|>" >> ELSE << >>)

ParseCalls ==
  {Some([fn |-> "parse", json |-> J, content |-> Wrap(J, box, l, a, b, t)]) :
     J \in JsonDocs, box \in BOOLEAN, l \in 0 .. MaxWs, a \in 0 .. MaxWs,
     b \in 0 .. MaxWs, t \in 0 .. MaxWs}

\* the handler runs its parse logic on the content
ParseCall ==
  /\ call # None /\ call[1].fn = "parse"
  /\ ret = None
  /\ ret' = Some(ParseContent(call[1].content))
  /\ UNCHANGED << supabase, envOk, call, blobs, mounted, clientState,
                  pollTimerRef, timers, hu, nUploads, db, invs, reads,
                  lastError, onErrorSeq >>

InitParse == Idle /\ supabase /\ envOk /\ call \in ParseCalls

SpecParse == InitParse /\ [][ParseCall]_vars

(* ---------------------------- CaffeineChart ---------------------------- *)
\* Time is counted in steps of the chart (30 minutes); an amount of caffeine
\* is an integer number of units of 1 / Unit mg, which represents exactly
\* every value the decay takes after a whole number of half-lives and to four
\* decimals the values in between.

\* steps of 30 minutes in one half-life of HALF_LIFE hours
StepsPerHalfLife == (HALF_LIFE * 60) \div StepMinutes
PowScale == 10 ^ 4
Unit == PowScale * 2 ^ MaxHalfLives

\* Math.pow(0.5, r / StepsPerHalfLife) * PowScale for r = 0 .. 9
PowTable == << 10000, 9330, 8706, 8123, 7579, 7071, 6598, 6156, 5743, 5359 >>

\* the elapsed times the representation covers
MaxSteps == StepsPerHalfLife * MaxHalfLives

\* a decay that already returns 0 when no time has elapsed
calculateRemainingExclusive(amount, elapsed) ==
  IF elapsed <= 0 THEN 0
  ELSE amount * PowTable[(elapsed % StepsPerHalfLife) + 1]
              * 2 ^ (MaxHalfLives - (elapsed \div StepsPerHalfLife))

\* calculateRemaining(amount, elapsedHours), elapsed in steps, result in units
calculateRemaining(amount, elapsed) ==
  IF elapsed < 0 THEN 0
  ELSE amount * PowTable[(elapsed % StepsPerHalfLife) + 1]
              * 2 ^ (MaxHalfLives - (elapsed \div StepsPerHalfLife))

DecayAmounts == {0, 1, 100, 150, 300}
DecayCalls ==
  {Some([fn |-> "decay", amount |-> a, elapsed |-> e]) :
     a \in DecayAmounts, e \in -2 .. MaxSteps}

DecayCall ==
  /\ call # None /\ call[1].fn = "decay"
  /\ ret = None
  /\ ret' = Some(calculateRemaining(call[1].amount, call[1].elapsed))
  /\ UNCHANGED << supabase, envOk, call, blobs, mounted, clientState,
                  pollTimerRef, timers, hu, nUploads, db, invs, reads,
                  lastError, onErrorSeq >>

InitDecay == Idle /\ supabase /\ envOk /\ call \in DecayCalls

SpecDecay == InitDecay /\ [][DecayCall]_vars

\* Math.round of a non-negative amount given in units: the nearest integer
\* number of mg, halves rounded up
MathRound(v) == (2 * v + Unit) \div (2 * Unit)

\* a contribution that takes the distance in time, whatever its direction
ContributionAbs(log, currentTime) ==
  LET elapsed == currentTime - log.drank_at IN
  calculateRemaining(log.caffeine_amount, IF elapsed < 0 THEN -elapsed ELSE elapsed)

\* the body of logs.forEach: what one log adds to totalCaffeine at a point
Contribution(log, currentTime) ==
  LET elapsed == currentTime - log.drank_at IN
  IF elapsed >= 0 THEN calculateRemaining(log.caffeine_amount, elapsed) ELSE 0

\* logs.forEach over the logs from the k-th on, added to totalCaffeine
RECURSIVE ForEachLog(_, _, _, _)
\* a total assigned by each log instead of added to: only the last log counts
ForEachLogAssign(logs, k, currentTime, totalCaffeine) ==
  IF k > Len(logs) THEN totalCaffeine
  ELSE Contribution(logs[Len(logs)], currentTime)
ForEachLog(logs, k, currentTime, totalCaffeine) ==
  IF k > Len(logs) THEN totalCaffeine
  ELSE ForEachLog(logs, k + 1, currentTime,
                  totalCaffeine + Contribution(logs[k], currentTime))

\* the point pushed for the time current
PointAt(logs, current) ==
  [timestamp |-> current,
   amount |-> MathRound(ForEachLog(logs, 1, current, 0))]

\* the local clock: it is changed by shift steps when it reads the step at
\* (counted from today 00:00), or not at all; timestamps count the steps
\* elapsed since today 00:00
Zones == {[at |-> 0, shift |-> 0], [at |-> 4, shift |-> 2], [at |-> 4, shift |-> -2]}

\* the local time fields of a timestamp
LocalTime(zone, t) == IF zone.shift # 0 /\ t >= zone.at THEN t + zone.shift ELSE t

\* the timestamp of local time fields: a skipped or repeated local time is
\* read with the offset in force before the change
UTC(zone, local) ==
  IF zone.shift = 0 \/ local < zone.at THEN local
  ELSE IF zone.shift > 0 /\ local < zone.at + zone.shift THEN local
  ELSE local - zone.shift

\* current.setMinutes(current.getMinutes() + 30)
SetMinutes(zone, current) == UTC(zone, LocalTime(zone, current) + 1)

\* the while loop of the effect: from current to end, one point per step
RECURSIVE WhileLoop(_, _, _, _, _)
WhileLoop(logs, zone, current, end, points) ==
  IF current <= end
  THEN WhileLoop(logs, zone, SetMinutes(zone, current), end,
                 Append(points, PointAt(logs, current)))
  ELSE points

\* the window in local time: today 00:00 is step 0, the next day 06:00 is
\* step WindowEnd
WindowEnd == (30 * 60) \div StepMinutes
\* start and end of the effect
WindowStartAt(zone) == UTC(zone, 0)
WindowEndAt(zone) == UTC(zone, WindowEnd)

LogTimes == {-2, 0, 7, WindowEnd, WindowEnd + 1}
LogAmounts == {0, 100, 150}
Logs == [drank_at : LogTimes, caffeine_amount : LogAmounts]
LogLists == UNION {[1 .. n -> Logs] : n \in 0 .. MaxLogs}
ChartCalls ==
  {Some([fn |-> "chart", logs |-> l, zone |-> z]) : l \in LogLists, z \in Zones}

\* the effect of CaffeineChart computes the points for its logs
ChartEffect ==
  /\ call # None /\ call[1].fn = "chart"
  /\ ret = None
  /\ ret' = Some(WhileLoop(call[1].logs, call[1].zone,
                           WindowStartAt(call[1].zone),
                           WindowEndAt(call[1].zone), << >>))
  /\ UNCHANGED << supabase, envOk, call, blobs, mounted, clientState,
                  pollTimerRef, timers, hu, nUploads, db, invs, reads,
                  lastError, onErrorSeq >>

InitChart == Idle /\ supabase /\ envOk /\ call \in ChartCalls

SpecChart == InitChart /\ [][ChartEffect]_vars

(* ------------- the fetcher-based card and /api/analyze-drink ------------ *)

\* parseContent of the action: the box tokens removed, trimmed, JSON.parse
parseContent(content) == JsonParse(Trim(StripBox(content)))

\* obj[key] || dflt for a text, obj[key] || 0 for a number
TextOr(obj, key, dflt) ==
  IF key \in DOMAIN obj /\ obj[key] # "" THEN obj[key] ELSE dflt
NumberOr0(obj, key) == IF key \in DOMAIN obj THEN obj[key] ELSE 0

\* json({ error }, { status })
ErrorResponse(e) == [error |-> e]

\* what the call of the analysis API may produce for the action
ActionApiOutcomes ==
  {[kind |-> "throw"], [kind |-> "http_error"], [kind |-> "length"],
   [kind |-> "empty"]}
  \cup {[kind |-> "content", content |-> c] : c \in Contents}

\* the action of /api/analyze-drink: the body of its JSON response
action(req) ==
  IF req.method # "POST" THEN ErrorResponse("Method not allowed")
  ELSE IF ~req.file THEN ErrorResponse("No valid image provided")
  ELSE IF ~req.apiKey THEN ErrorResponse("Server configuration error")
  ELSE CASE req.api.kind = "throw" -> ErrorResponse("Analysis process failed")
         [] req.api.kind = "http_error" -> ErrorResponse("Failed to analyze image")
         [] req.api.kind = "length" ->
              ErrorResponse("AI response was truncated, please try again")
         [] req.api.kind = "empty" ->
              ErrorResponse("AI failed to generate a valid response")
         [] OTHER ->
              LET parsed == parseContent(req.api.content) IN
              IF ~parsed.ok
              THEN ErrorResponse("Failed to parse AI response as JSON")
              ELSE IF parsed.value = None
              THEN ErrorResponse("Analysis process failed")
              ELSE LET parsedData == parsed.value[1] IN
                   [brand |-> TextOr(parsedData, "brand", "Unknown"),
                    productName |-> TextOr(parsedData, "product_name", "Unknown Drink"),
                    caffeine |-> Some(NumberOr0(parsedData, "caffeine_mg")),
                    sugar |-> NumberOr0(parsedData, "sugar_g"),
                    note |-> TextOr(parsedData, "note", "Analysis completed"),
                    raw |-> parsedData]

AnalyzeRequests ==
  [method : {"POST", "GET"}, file : BOOLEAN, apiKey : BOOLEAN,
   api : ActionApiOutcomes]
AnalyzeCalls == {Some([fn |-> "analyze", req |-> q]) : q \in AnalyzeRequests}

\* the action answers: its response becomes analyzeFetcher.data
AnalyzeResponse ==
  /\ call # None /\ call[1].fn = "analyze"
  /\ ret = None
  /\ ret' = Some([data |-> action(call[1].req), seen |-> FALSE])
  /\ UNCHANGED << supabase, envOk, call, blobs, mounted, clientState,
                  pollTimerRef, timers, hu, nUploads, db, invs, reads,
                  lastError, onErrorSeq >>

\* the effect on analyzeFetcher.data, run once for the new data
FetcherEffect ==
  /\ call # None /\ call[1].fn = "analyze"
  /\ ret # None /\ ~ret[1].seen
  /\ ret' = Some([ret[1] EXCEPT !.seen = TRUE])
  /\ LET res == ret[1].data IN
     IF "caffeine" \in DOMAIN res
     THEN IF res.caffeine # None
          THEN /\ analysisResult' = Some(res)
               /\ selectedCategory' = res.productName
               /\ NoOnError
          ELSE IF "error" \in DOMAIN res /\ res.error # ""
          THEN /\ onError(Msg("Analysis failed: " \o res.error, 17 + Len(res.error)))
               /\ UNCHANGED << analysisResult, selectedCategory >>
          ELSE /\ NoOnError
               /\ UNCHANGED << analysisResult, selectedCategory >>
     ELSE /\ NoOnError
          /\ UNCHANGED << analysisResult, selectedCategory >>
  /\ UNCHANGED << supabase, envOk, call, blobs, mounted, isAnalyzing, pollStatus,
                  pollTimerRef, timers, hu, nUploads, db, invs, reads >>

InitFetcher == Idle /\ supabase /\ envOk /\ call \in AnalyzeCalls

NextFetcher == AnalyzeResponse \/ FetcherEffect

SpecFetcher == InitFetcher /\ [][NextFetcher]_vars

(* ------------------------ temporary blob input ------------------------ *)

\* what a client may store: the JSON text that would have gone to the worker
\* (with or without jobId and imageBase64), or a text that is not JSON
BlobPayloads ==
  [valid : {TRUE}, jobId : {NoJob, 1}, imageBase64 : BOOLEAN]
  \cup {[valid |-> FALSE, jobId |-> NoJob, imageBase64 |-> FALSE]}

\* upload-temp-image: the body is stored under a fresh key
UploadTempImage(k, payload) ==
  /\ blobs[k] = None
  /\ \A i \in DOMAIN invs : invs[i].blobKey # k
  /\ blobs' = [blobs EXCEPT ![k] = Some(payload)]
  /\ UNCHANGED << supabase, envOk, call, ret, mounted, clientState, pollTimerRef, timers,
                  hu, nUploads, db, invs, reads, lastError, onErrorSeq >>

\* a request { blobKey, jobId? } reaches the worker
BlobTrigger(j, k) ==
  /\ blobs[k] # None
  /\ Len(invs) < MaxBlobRequests
  /\ invs' = Append(invs, [job |-> j, pc |-> "queued", code |-> 0,
                           client |-> TRUE, httpMethod |-> "POST",
                           imageBase64 |-> FALSE,
                           blobKey |-> k, blobRead |-> FALSE])
  /\ UNCHANGED << supabase, envOk, call, ret, blobs, mounted, clientState, pollTimerRef,
                  timers, hu, nUploads, db, reads, lastError, onErrorSeq >>

\* the client's insert of the pending row of job j
InsertJobRow(j) ==
  /\ db[j] = None
  /\ db' = [db EXCEPT ![j] =
              Some([status |-> "pending", result |-> None, error_message |-> None])]
  /\ UNCHANGED << supabase, envOk, call, ret, blobs, mounted, clientState, pollTimerRef,
                  timers, hu, nUploads, invs, reads, lastError, onErrorSeq >>

InitBlob == Init /\ supabase /\ envOk

NextBlob ==
  \/ \E k \in BlobKeys, payload \in BlobPayloads : UploadTempImage(k, payload)
  \/ \E j \in {NoJob, 1}, k \in BlobKeys : BlobTrigger(j, k)
  \/ InsertJobRow(1)
  \/ \E i \in DOMAIN invs : WorkerStart(i, TRUE)
  \/ \E i \in DOMAIN invs, api \in OverlapOutcomes : WorkerFinish(i, api, TRUE)

SpecBlob == InitBlob /\ [][NextBlob]_vars

(* ------------------ analysis_jobs row level security ------------------ *)
\* The table as the database sees it: each row carries its owner, and (for
\* the analysis only) which role chose its current values.

Users == {"alice", "bob"}
Statuses == {"pending", "processing", "completed", "failed"}

\* policy 1, for select: using (auth.uid() = user_id)
ViewOwnJobs(uid, row) == uid = row.user_id
\* policy 2, for insert: with check (auth.uid() = user_id)
CreateOwnJobs(uid, row) == uid = row.user_id
\* row level security is enabled and no policy exists for update or delete:
\* no row qualifies for a client's update or delete
ClientMayModify(uid, row) == FALSE

\* rows a client may offer to insert: any column values it likes
OfferedRows ==
  [user_id : Users, status : Statuses,
   result : {None, Some(Latte)},
   error_message : {None, Some(Msg("made up", 7))},
   writer : {"client"}]

rlsFrame == << supabase, envOk, call, ret, blobs, mounted, clientState, pollTimerRef, timers, hu,
               nUploads, invs, lastError, onErrorSeq >>

\* a client signed in as uid inserts a row with the key j
RlsInsert(uid, j, row) ==
  /\ j <= RlsRows
  /\ db[j] = None
  /\ IF CreateOwnJobs(uid, row)
     THEN /\ db' = [db EXCEPT ![j] = Some(row)]
          /\ reads' = SetToBag({[stmt |-> "insert", uid |-> uid, rows |-> {j}]})
     ELSE /\ db' = db
          /\ reads' = SetToBag({[stmt |-> "insert denied", uid |-> uid, rows |-> {}]})
  /\ UNCHANGED rlsFrame

\* a client signed in as uid selects from the table
RlsSelect(uid) ==
  /\ reads' = SetToBag({[stmt |-> "select", uid |-> uid,
                          rows |-> {j \in Jobs : db[j] # None
                                                   /\ ViewOwnJobs(uid, db[j][1])}]})
  /\ UNCHANGED db
  /\ UNCHANGED rlsFrame

\* a client signed in as uid updates the row j
RlsUpdate(uid, j, st) ==
  /\ db[j] # None
  /\ IF ClientMayModify(uid, db[j][1])
     THEN /\ db' = [db EXCEPT ![j] =
                      Some([db[j][1] EXCEPT !.status = st, !.writer = "client"])]
          /\ reads' = SetToBag({[stmt |-> "update", uid |-> uid, rows |-> {j}]})
     ELSE /\ db' = db
          /\ reads' = SetToBag({[stmt |-> "update", uid |-> uid, rows |-> {}]})
  /\ UNCHANGED rlsFrame

\* the worker, with the service role key, updates the row j (safeUpdateJob)
RlsWorkerUpdate(j, api) ==
  /\ db[j] # None
  /\ db[j][1].status \in {"pending", "processing"}
  /\ LET a == Analyse(api) IN
     db' = IF db[j][1].status = "pending"
           THEN safeUpdateJob(j, [status |-> "processing", writer |-> "worker"], TRUE)
           ELSE IF a.ok
           THEN safeUpdateJob(j, [status |-> "completed", result |-> a.value,
                                  writer |-> "worker"], TRUE)
           ELSE safeUpdateJob(j, [status |-> "failed",
                                  error_message |-> Some(trimErrorText(a.msg[1])),
                                  writer |-> "worker"], TRUE)
  /\ UNCHANGED reads
  /\ UNCHANGED rlsFrame

InitRls == Init /\ supabase /\ envOk

NextRls ==
  \/ \E uid \in Users, j \in Jobs, row \in OfferedRows : RlsInsert(uid, j, row)
  \/ \E uid \in Users : RlsSelect(uid)
  \/ \E uid \in Users, j \in Jobs, st \in Statuses : RlsUpdate(uid, j, st)
  \/ \E j \in Jobs, api \in OverlapOutcomes : RlsWorkerUpdate(j, api)

SpecRls == InitRls /\ [][NextRls]_vars

(* ------------------------------ claims -------------------------------- *)

Terminal == {"completed", "failed"}
StatusRank(st) ==
  CASE st = "pending" -> 0 [] st = "processing" -> 1 [] OTHER -> 2
InvsOf(j) == {i \in DOMAIN invs : invs[i].job = j}
\* the worker invocation i got past the request validation of the handler
PassedValidation(i) ==
  invs[i].httpMethod = "POST" /\ envOk /\ invs[i].job # NoJob /\ invs[i].imageBase64
\* this step is the rest of the interval callback for the answered read r
Answers(r) ==
  BagIn(r, reads) /\ r.phase = "answered" /\ reads' = reads (-) SetToBag({r})
OnErrorCalledWith(m) == lastError' = Some(m) /\ onErrorSeq' # onErrorSeq
TimeoutMsg == Msg("Analysis timed out. Please try again.", 37)
InsertFailedMsg ==
  Msg("Failed to initialize analysis task. Please ensure you are logged in.", 68)
\* milliseconds between startPolling(j) and the latest tick of its timer
ElapsedMs(j) == timers[j].attempts * intervalMs

\* C1: the status of a row only moves forward, pending -> processing ->
\* completed | failed: no write changes a completed or failed row to another
\* status, nor a processing row back to pending.
C1_StatusOnlyForward ==
  [][\A j \in Jobs :
       (db[j] # None /\ db'[j] # None) =>
         /\ StatusRank(db'[j][1].status) >= StatusRank(db[j][1].status)
         /\ (db[j][1].status \in Terminal =>
               db'[j][1].status = db[j][1].status)]_vars

\* C2: a worker invocation that passed the request validation has, when the
\* handler returns, set the status of its job to a terminal value.
C2_TerminalStatusSet ==
  \A i \in DOMAIN invs :
    (invs[i].pc = "done" /\ PassedValidation(i)) =>
      /\ db[invs[i].job] # None
      /\ db[invs[i].job][1].status \in Terminal

\* C3: the trigger request of a job is sent only when the insert of its row
\* succeeded (the row exists, in status pending); when the insert fails the
\* step calls onError with the submission error, and from then on the job has
\* no row, no trigger request and no timer.
C3_TriggerOnlyAfterInsert ==
  /\ [](\A j \in Jobs :
         /\ (InvsOf(j) # {} => db[j] # None)
         /\ ((hu[j].pc = "error" /\ db[j] = None) =>
               /\ InvsOf(j) = {}
               /\ timers[j] = [live |-> FALSE, attempts |-> 0]
               /\ pollTimerRef # j))
  /\ [][\A j \in Jobs :
          /\ (\E i \in DOMAIN invs' : i \notin DOMAIN invs /\ invs'[i].job = j) =>
               (db[j] # None /\ db[j][1].status = "pending")
          /\ (hu[j].pc = "insert" /\ hu'[j].pc = "error") =>
               (db'[j] = None /\ OnErrorCalledWith(InsertFailedMsg))]_vars

C3_Witness ==
  \E j \in Jobs :
    /\ hu[j].pc = "error" /\ db[j] = None
    /\ lastError = Some(InsertFailedMsg)
    /\ ~isAnalyzing

\* C4 (as stated): when the trigger call fails after the row was created, the
\* row is still in status pending at the moment the client handles the failure.
C4_RowStillPending ==
  [][\A j \in Jobs :
       (hu[j].pc = "trigger" /\ hu'[j].pc = "error") =>
         db[j][1].status = "pending"]_vars

\* C4 (amended): when the trigger call fails after the row was created, the
\* client calls onError with the submission error, clears isAnalyzing and
\* starts no polling; the row still exists and is unchanged by the client, and
\* it is pending when no invocation of the worker got past its validation.
C4_TriggerFailureSurfaced ==
  [][\A j \in Jobs :
       (hu[j].pc = "trigger" /\ hu'[j].pc = "error") =>
         /\ \/ OnErrorCalledWith(Msg("Failed to fetch", 15))
            \/ \E i \in InvsOf(j) :
                 /\ invs[i].pc = "done" /\ invs[i].code \notin {200, 202}
                 /\ OnErrorCalledWith(StartFailed(invs[i].code))
         /\ ~isAnalyzing'
         /\ timers'[j] = [live |-> FALSE, attempts |-> 0]
         /\ pollTimerRef' = NoTimer
         /\ db[j] # None /\ db'[j] = db[j]
         /\ ((\A i \in InvsOf(j) : invs[i].pc = "queued" \/ ~PassedValidation(i))
               => db[j][1].status = "pending")]_vars

C4_Witness ==
  \E j \in Jobs :
    /\ hu[j].pc = "error"
    /\ db[j] # None /\ db[j][1].status = "failed"
    /\ lastError = Some(StartFailed(500))
    /\ ~isAnalyzing /\ ~timers[j].live

\* C5: when a poll reads completed with a result payload, the poller stops
\* polling (the timer of that job is no longer active), clears isAnalyzing and
\* sets analysisResult to exactly the payload read, without calling onError.
C5_CompletedSurfaced ==
  [][\A r \in BagToSet(reads) :
       (Answers(r) /\ ~r.error /\ r.status = "completed" /\ r.result # None) =>
         /\ ~timers'[r.job].live
         /\ ~isAnalyzing'
         /\ analysisResult' = r.result
         /\ UNCHANGED << lastError, onErrorSeq >>]_vars

\* C6: when a poll reads failed, the poller stops polling, clears isAnalyzing
\* and calls onError with the stored error_message (or 'Analysis failed.' when
\* there is none); analysisResult is not set.
C6_FailedSurfaced ==
  [][\A r \in BagToSet(reads) :
       (Answers(r) /\ ~r.error /\ r.status = "failed") =>
         /\ ~timers'[r.job].live
         /\ ~isAnalyzing'
         /\ OnErrorCalledWith(IF r.error_message # None
                              THEN r.error_message[1]
                              ELSE Msg("Analysis failed.", 16))
         /\ analysisResult' = analysisResult]_vars

\* C7: when a poll reads completed with a null result, the poller stops
\* polling, calls onError with the 'completed but no data' message,
\* analysisResult stays null and isAnalyzing becomes false.
C7_NoDataIsFailure ==
  [][\A r \in BagToSet(reads) :
       (Answers(r) /\ ~r.error /\ r.status = "completed" /\ r.result = None) =>
         /\ ~timers'[r.job].live
         /\ OnErrorCalledWith(Msg("Analysis completed but returned no data.", 40))
         /\ analysisResult' = None
         /\ ~isAnalyzing']_vars

C9_ReadErrorIgnored ==
  [][\A r \in BagToSet(reads) :
       /\ (Answers(r) /\ r.error) =>
            UNCHANGED << timers, pollTimerRef, isAnalyzing, analysisResult,
                         selectedCategory, pollStatus, lastError, onErrorSeq >>
       /\ (Answers(r) /\ ~r.error /\ r.status \notin Terminal) =>
            UNCHANGED << timers, pollTimerRef, isAnalyzing, analysisResult,
                         lastError, onErrorSeq >>]_vars

\* every read of the timer so far was answered with an error (no answer has
\* changed pollStatus) and the timer is still running
C9_Witness ==
  \E j \in Jobs :
    /\ timers[j].live /\ timers[j].attempts >= 2
    /\ reads = EmptyBag
    /\ pollStatus = "Initializing analysis..."
    /\ isAnalyzing
    /\ lastError = None

\* C10: once the component is unmounted no interval timer created by
\* startPolling is active, and none is active after its timeout.
C10_TimerReleased ==
  \A j \in Jobs :
    timers[j].live => (mounted /\ timers[j].attempts <= maxAttempts)

\* C11: the steps of the poller (a tick, the answer of a read, the timeout,
\* stopPolling, the unmount) leave every row of analysis_jobs and every worker
\* invocation as they are: the poller only reads, and giving up neither
\* changes the row nor stops the worker.
C11_PollerOnlyReads ==
  [][(timers' # timers \/ pollTimerRef' # pollTimerRef \/ reads' # reads
        \/ mounted' # mounted)
       => (db' = db /\ invs' = invs)]_vars

\* the poller has timed out while the worker is still running on the job
C11_Witness ==
  \E j \in Jobs :
    /\ lastError = Some(TimeoutMsg)
    /\ timers[j].attempts = maxAttempts + 1 /\ ~timers[j].live
    /\ db[j] # None /\ db[j][1].status = "processing"
    /\ \E i \in InvsOf(j) : invs[i].pc = "calling"

TooLargeMsg == Msg("Image is too large (max 5MB)", 28)
NoClientMsg == Msg("System configuration error: Supabase client missing", 51)
\* the file-selection event j is handled in this step, with a file
Selects(j) == hu[j].pc = "none" /\ "file" \in DOMAIN hu'[j]

\* C12: a file larger than MaxBytes is rejected by handleImageUpload with a
\* call of onError (the size message when the client exists) and nothing
\* else: no row, no trigger request, no timer, no read, isAnalyzing and
\* analysisResult unchanged, then and ever after; a file of at most MaxBytes
\* passes the check and goes on to the insert.
C12_OversizeRejected ==
  /\ [][\A j \in Jobs :
          Selects(j) =>
            IF hu'[j].file.size > MaxBytes
            THEN /\ hu'[j].pc = "rejected"
                 /\ OnErrorCalledWith(IF supabase THEN TooLargeMsg ELSE NoClientMsg)
                 /\ UNCHANGED << db, invs, timers, pollTimerRef, reads,
                                 isAnalyzing, analysisResult >>
            ELSE supabase => (hu'[j].pc = "insert" /\ NoOnError)]_vars
  /\ [](\A j \in Jobs :
          hu[j].pc = "rejected" =>
            /\ db[j] = None /\ InvsOf(j) = {}
            /\ timers[j] = [live |-> FALSE, attempts |-> 0])

C12_Witness ==
  \E j \in Jobs :
    /\ hu[j].pc = "rejected" /\ hu[j].file.size = MaxBytes + 1
    /\ lastError = Some(TooLargeMsg)
    /\ ~isAnalyzing /\ analysisResult = None /\ db[j] = None

\* C13: a file that is not an image is rejected before any network call: it
\* gets no insert, no row and no trigger request.
C13_WrongTypeRejected ==
  \A j \in Jobs :
    ("file" \in DOMAIN hu[j] /\ hu[j].file.type # "image/jpeg") =>
      /\ hu[j].pc = "rejected"
      /\ db[j] = None /\ InvsOf(j) = {}

\* the trigger requests the client sent for job j
ClientInvsOf(j) == {i \in InvsOf(j) : invs[i].client}

\* C14: for one upload the client attempts the insert at most once and sends
\* the trigger request at most once: a submission never goes back to its
\* insert, a trigger request is sent only by the step that ends the file
\* read, and once the trigger is sent (whether it then fails, the worker
\* fails, or the poller times out) the client sends no other for that job.
C14_NoAutomaticRetry ==
  /\ [](\A j \in Jobs : Cardinality(ClientInvsOf(j)) <= 1)
  /\ [][\A j \in Jobs :
          /\ (hu'[j].pc = "insert" /\ hu[j].pc # "insert") => hu[j].pc = "none"
          /\ (ClientInvsOf(j)' # ClientInvsOf(j)) =>
                (hu[j].pc = "read" /\ hu'[j].pc = "trigger")
          /\ (hu[j].pc \in {"trigger", "polling", "error"}) =>
                (hu'[j].pc \notin {"insert", "read"}
                   /\ ClientInvsOf(j)' = ClientInvsOf(j))]_vars

\* the worker failed the job, the poller surfaced the failure and stopped,
\* and the one trigger request of the job is all the client ever sent
C14_Witness ==
  \E j \in Jobs :
    /\ hu[j].pc = "polling" /\ ~timers[j].live
    /\ db[j] # None /\ db[j][1].status = "failed"
    /\ lastError = db[j][1].error_message
    /\ ~isAnalyzing
    /\ Cardinality(ClientInvsOf(j)) = 1
    /\ \A i \in InvsOf(j) : invs[i].pc = "done"

\* C15: under the policies of analysis_jobs a client can only create a row
\* in its initial state: every row whose values a client chose is pending,
\* with no result and no error message.
C15_OnlyWorkerChoosesValues ==
  \A j \in Jobs :
    (db[j] # None /\ "writer" \in DOMAIN db[j][1] /\ db[j][1].writer = "client") =>
      /\ db[j][1].status = "pending"
      /\ db[j][1].result = None
      /\ db[j][1].error_message = None

\* C16: the error message stored on a job has at most MAX_ERROR_TEXT_LEN
\* characters.
C16_StoredErrorBounded ==
  \A j \in Jobs :
    (db[j] # None /\ db[j][1].error_message # None) =>
      db[j][1].error_message[1].len <= MAX_ERROR_TEXT_LEN

\* C17: when the handler returns from an invocation that read a blob (blobKey
\* given, the get returned the stored payload), the blob key is deleted.
C17_BlobDeletedAfterRead ==
  \A i \in DOMAIN invs :
    (invs[i].pc = "done" /\ invs[i].blobRead) => blobs[invs[i].blobKey] = None

\* C18: for every valid JSON text J, the parse logic applied to J wrapped in
\* a json code fence (with or without the box tokens and whitespace around)
\* succeeds and yields the same value as the parse logic applied to J alone.
C18_FencedParsesLikeBare ==
  (call # None /\ call[1].fn = "parse" /\ ret # None) =>
    /\ ret[1].ok
    /\ ret[1] = ParseContent(call[1].json)

\* the decay was computed for a non-negative elapsed time
Decayed == call # None /\ call[1].fn = "decay" /\ ret # None /\ call[1].elapsed >= 0

\* C19 (as stated): an intake of amount a >= 0 contributes exactly a at
\* elapsed time 0, a/2 after 5 hours and a/4 after 10 hours, and the
\* contribution is strictly decreasing in the elapsed time.
C19_DecayStrictlyDecreasing ==
  Decayed =>
    LET a == call[1].amount
        e == call[1].elapsed
    IN /\ (e = 0 => ret[1] = a * Unit)
       /\ (e = StepsPerHalfLife => 2 * ret[1] = a * Unit)
       /\ (e = 2 * StepsPerHalfLife => 4 * ret[1] = a * Unit)
       /\ calculateRemaining(a, e + 1) < ret[1]

\* C19 (amended): the same values at 0, 5 and 10 hours; the contribution is
\* strictly decreasing in the elapsed time when a > 0 and is constantly 0
\* when a = 0.
C19_DecayHalvesEveryFiveHours ==
  Decayed =>
    LET a == call[1].amount
        e == call[1].elapsed
    IN /\ (e = 0 => ret[1] = a * Unit)
       /\ (e = StepsPerHalfLife => 2 * ret[1] = a * Unit)
       /\ (e = 2 * StepsPerHalfLife => 4 * ret[1] = a * Unit)
       /\ (a > 0 => calculateRemaining(a, e + 1) < ret[1])
       /\ (a = 0 => ret[1] = 0)

\* 150 mg after 10 hours: 37.5 mg
C19_Witness ==
  /\ Decayed
  /\ call[1].amount = 150 /\ call[1].elapsed = 2 * StepsPerHalfLife
  /\ 2 * ret[1] = 75 * Unit

\* the chart computed its points
Charted == call # None /\ call[1].fn = "chart" /\ ret # None
\* the logs drunk at or before the time t
LogsUpTo(logs, t) == SelectSeq(logs, LAMBDA log : log.drank_at <= t)

\* C20: at every chart point the logs drunk after the point's timestamp
\* contribute nothing: the amount of the point is the amount computed from
\* the logs at or before it alone, and it is 0 when there is none.
C20_FutureLogsContributeZero ==
  Charted =>
    \A i \in DOMAIN ret[1] :
      LET t == ret[1][i].timestamp
          past == LogsUpTo(call[1].logs, t)
      IN /\ ret[1][i].amount = PointAt(past, t).amount
         /\ (past = << >> => ret[1][i].amount = 0)

\* 150 mg drunk at 03:30 and a log after the window: 0 at the point of 03:00,
\* 150 at the point of 03:30
C20_Witness ==
  /\ Charted
  /\ call[1].logs = << [drank_at |-> WindowEnd + 1, caffeine_amount |-> 100],
                       [drank_at |-> 7, caffeine_amount |-> 150] >>
  /\ ret[1][7] = [timestamp |-> 6, amount |-> 0]
  /\ ret[1][8] = [timestamp |-> 7, amount |-> 150]

\* the chart computed the points of two events
ChartedTwo == Charted /\ Len(call[1].logs) = 2
\* totalCaffeine at the time t for the events of logs
Total(logs, t) == ForEachLog(logs, 1, t, 0)

\* C21 (as stated): for two events the amount of every chart point is the
\* sum of the amounts the chart produces for each event alone.
C21_AmountAdditive ==
  ChartedTwo =>
    \A i \in DOMAIN ret[1] :
      LET t == ret[1][i].timestamp
          e1 == << call[1].logs[1] >>
          e2 == << call[1].logs[2] >>
      IN ret[1][i].amount = PointAt(e1, t).amount + PointAt(e2, t).amount

\* C21 (amended): the total accumulated before rounding is additive over the
\* two events, and the amount of every chart point is Math.round of the sum
\* of the two totals.
C21_TotalAdditive ==
  ChartedTwo =>
    \A i \in DOMAIN ret[1] :
      LET t == ret[1][i].timestamp
          e1 == << call[1].logs[1] >>
          e2 == << call[1].logs[2] >>
      IN /\ Total(call[1].logs, t) = Total(e1, t) + Total(e2, t)
         /\ ret[1][i].amount = MathRound(Total(e1, t) + Total(e2, t))

\* 100 mg twice at 00:00: 187 at the point of 00:30, where each alone gives 93
C21_Witness ==
  /\ ChartedTwo
  /\ call[1].logs = << [drank_at |-> 0, caffeine_amount |-> 100],
                       [drank_at |-> 0, caffeine_amount |-> 100] >>
  /\ ret[1][2] = [timestamp |-> 1, amount |-> 187]
  /\ PointAt(<< call[1].logs[1] >>, 1).amount = 93

\* the duration of the window in steps
WindowSteps == WindowEndAt(call[1].zone) - WindowStartAt(call[1].zone)

\* C22: the loop produces ceil(D/S)+1 points (D/S is WindowSteps, a whole
\* number) with strictly increasing timestamps, the first at the start of the
\* window and the last at or before its end; 61 points for the chart's window.
C22_PointCount ==
  Charted =>
    LET points == ret[1] IN
    /\ Len(points) = WindowSteps + 1
    /\ \A i \in 1 .. Len(points) - 1 : points[i].timestamp < points[i + 1].timestamp
    /\ points[1].timestamp = WindowStartAt(call[1].zone)
    /\ points[Len(points)].timestamp <= WindowEndAt(call[1].zone)
    /\ Len(points) = 61

\* the model outputs that neither stage of the parse logic can parse
Unparsable == {c \in Contents : ~ParseContent(c).ok}
\* the invocation i of the handler got the model output c and returned
FinishedOn(i, c) ==
  \E dbOk \in BOOLEAN : WorkerFinish(i, [kind |-> "content", content |-> c], dbOk)

\* C23: when the handler gets a model output that neither stage can parse
\* (a fenced block that is not valid JSON included), it leaves the row of the
\* job in status failed with an error message, not completed.
C23_ParseFailureFails ==
  [][\A i \in DOMAIN invs : \A c \in Unparsable :
       FinishedOn(i, c) =>
         /\ db'[invs[i].job] # None
         /\ db'[invs[i].job][1].status = "failed"
         /\ db'[invs[i].job][1].error_message # None]_vars

\* the keys of the AnalysisResult shape the consuming code relies on
NumericKeys == {"caffeine_mg", "sugar_g", "volume_ml"}

\* C24: a row in status completed holds a result that is present (not null)
\* and has the keys caffeine_mg, sugar_g and volume_ml.
C24_CompletedHasResult ==
  \A j \in Jobs :
    (db[j] # None /\ db[j][1].status = "completed") =>
      /\ db[j][1].result # None
      /\ NumericKeys \subseteq DOMAIN db[j][1].result[1]

\* the interval callback surfaces a terminal outcome of the read r: the row
\* it returned is completed or failed
Surfaces(r) ==
  /\ r.phase = "answered" /\ ~r.error /\ r.status \in Terminal
  /\ PollAnswer(r)

\* C25: in the mounted component a polling session surfaces a terminal
\* outcome only while its timer is live, so at most one outcome and at most once: no result or error is
\* surfaced after the timeout or after stopPolling cleared the timer.
C25_OneOutcomePerSession ==
  [][\A r \in BagToSet(reads) :
       (mounted /\ Surfaces(r)) => timers[r.job].live]_vars

\* the submission or the polling of job j is in progress
InProgress(j) == hu[j].pc \in {"insert", "read", "trigger"} \/ timers[j].live

\* C26: the answer of a poll read of an earlier job, handled while the
\* submission or the polling of a later job is in progress, leaves the later
\* job's timer, analysisResult and isAnalyzing as they are.
C26_SessionsIsolated ==
  [][\A r \in BagToSet(reads) : \A j \in Jobs :
       (r.job < j /\ r.phase = "answered" /\ PollAnswer(r) /\ InProgress(j)) =>
         /\ timers'[j] = timers[j]
         /\ analysisResult' = analysisResult
         /\ isAnalyzing' = isAnalyzing]_vars

\* the jobs whose interval timer is live
LiveTimers == {j \in Jobs : timers[j].live}

\* C27: at most one interval timer created by startPolling is live, and
\* pollTimerRef refers to it whenever one is live.
C27_OneLiveTimer ==
  mounted =>
    /\ Cardinality(LiveTimers) <= 1
    /\ \A j \in LiveTimers : pollTimerRef = j

\* C28: in the mounted component isAnalyzing is true whenever a polling
\* interval timer is live.
C28_TimerImpliesAnalyzing ==
  (mounted /\ LiveTimers # {}) => isAnalyzing

\* C29: in the mounted component isAnalyzing, once true, eventually becomes
\* false again, when every awaited call returns or fails and the timers keep
\* firing.
C29_AnalysingEnds ==
  (isAnalyzing /\ mounted) ~> (~isAnalyzing \/ ~mounted)

\* C30: the effect of the fetcher-based card, run on a response of the
\* action, calls onError with "Analysis failed: " and the error when the
\* response carries an error, and sets the analysis result otherwise.
C30_NoResponseDropped ==
  [][FetcherEffect =>
       LET res == ret[1].data IN
       IF "error" \in DOMAIN res
       THEN /\ lastError' = Some(Msg("Analysis failed: " \o res.error,
                                     17 + Len(res.error)))
            /\ onErrorSeq' # onErrorSeq
       ELSE analysisResult' = Some(res)]_vars
====
